---- MODULE Spec2Model ----
(***************************************************************************)
(* Model of integrations/create_config.py: the five client operations      *)
(* against the integration-platform API and the orchestration main().      *)
(*                                                                         *)
(* Python values are represented as follows.  None is the string "None"    *)
(* (no program string has that value).  A dict with string keys is a       *)
(* function whose domain is the set of keys present; a dataclass instance  *)
(* is a record.  A list is a sequence.                                     *)
(* An HTTP call blocks the single thread, so every operation is split at   *)
(* the call: Call_* issues the request, a Serve* action is the remote      *)
(* service answering it, Return_* is the rest of the function body.        *)
(***************************************************************************)
EXTENDS Integers, Sequences, FiniteSets, TLC

VARIABLES token, target_org, step, phase, requests, response, locals, error,
          server_access_configs, server_integration_configs

vars == <<token, target_org, step, phase, requests, response, locals, error,
          server_access_configs, server_integration_configs>>

None == "None"

(* ------------------------------ bounds -------------------------------- *)
\* longest `items` list the service returns
MaxItems == 1
\* most fields the service leaves out of a create response
MaxOmitted == 1

(* ------------------------- values of the inputs ----------------------- *)
Tokens == {"Token AAAAAAA", "Token BBBBBBB"}
TargetOrgs == {None, "", "org-1"}
Statuses == {200, 304, 404, 500}
Schemas == {"api-key-url", "sentinelone-with-account-ids"}
Executions == {"exec-1", "exec-2"}
AccessIds == {"ac-1", "ac-2"}
IntegrationIds == {"ic-1", "ic-2"}

SeqsUpTo(S, n) == UNION {[1..k -> S] : k \in 0..n}
SubsetsUpTo(S, n) == {T \in SUBSET S : Cardinality(T) <= n}
Last(s) == s[Len(s)]
Restrict(f, S) == [k \in S |-> f[k]]

(* ------------------------------ data model ---------------------------- *)
ConfigSet(schema_id, auth, connect, settings) ==
    [schema_id |-> schema_id, auth |-> auth, connect |-> connect,
     settings |-> settings]

CreateIntegrationAccessConfigRequest(config_set, enabled, label, contact_info, external_console_link, runner_id) ==
    [config_set |-> config_set, enabled |-> enabled, label |-> label,
     contact_info |-> contact_info,
     external_console_link |-> external_console_link, runner_id |-> runner_id]

CreateIntegrationConfigRequest(access_config_id, config_set, enabled, label) ==
    [access_config_id |-> access_config_id, config_set |-> config_set,
     enabled |-> enabled, label |-> label]

\* dataclasses.asdict: a dict of the fields, nested dataclasses converted too
asdict_ConfigSet(c) ==
    [schema_id |-> c.schema_id, auth |-> c.auth, connect |-> c.connect,
     settings |-> c.settings]

asdict_access(r) ==
    [config_set |-> asdict_ConfigSet(r.config_set), enabled |-> r.enabled,
     label |-> r.label, contact_info |-> r.contact_info,
     external_console_link |-> r.external_console_link,
     runner_id |-> r.runner_id]

asdict_integration(r) ==
    [access_config_id |-> r.access_config_id,
     config_set |-> asdict_ConfigSet(r.config_set), enabled |-> r.enabled,
     label |-> r.label]

\* the subscripted keys of the two constructors, in evaluation order
AccessRequired ==
    <<"org_id", "platform_id", "id", "config_set", "enabled",
      "created_timestamp", "last_updated_timestamp">>
AccessOptional == {"runner_id", "label", "contact_info", "external_console_link"}
IntegrationRequired ==
    <<"org_id", "platform_id", "integration_id", "id", "access_config_id",
      "config_set", "enabled", "created_timestamp", "last_updated_timestamp">>
IntegrationOptional == {"label"}

Range(s) == {s[i] : i \in 1..Len(s)}

(* ------------------------------ outcomes ------------------------------ *)
NoError == [kind |-> "None", status |-> 0, key |-> ""]
HTTPError(status) == [kind |-> "HTTPError", status |-> status, key |-> ""]
JSONDecodeError == [kind |-> "JSONDecodeError", status |-> 0, key |-> ""]
KeyError(key) == [kind |-> "KeyError", status |-> 0, key |-> key]
IndexError == [kind |-> "IndexError", status |-> 0, key |-> ""]

Raise(e) == [error |-> e, value |-> None]
Return(v) == [error |-> NoError, value |-> v]

NoResponse == [status |-> 0, is_json |-> FALSE, body |-> <<>>]

\* variant: only server errors raise
raise_for_status_5xx(status) == 500 <= status /\ status < 600

\* requests.Response.raise_for_status: raises for 4xx and 5xx only
raise_for_status(status) == 400 <= status /\ status < 600

\* dict.get(key): the value, or None when the key is absent
Get(params, key) == IF key \in DOMAIN params THEN params[key] ELSE None

\* the first subscripted key, in evaluation order, that params lacks
FirstMissing(params, order) ==
    LET missing == {i \in 1..Len(order) : order[i] \notin DOMAIN params}
    IN order[CHOOSE i \in missing : \A j \in missing : i <= j]

(* --------------------------- request building ------------------------- *)
\* variant: `if target_org is not None` in place of `if target_org`
Headers_is_not_none(tok, org) ==
    IF org # None
    THEN [h \in {"Authorization", "X-Sevco-Target-Org"} |->
            IF h = "Authorization" THEN tok ELSE org]
    ELSE [h \in {"Authorization"} |-> tok]

\* headers = {"Authorization": token}; if target_org: add the org header
Headers(tok, org) ==
    IF org # None /\ org # ""
    THEN [h \in {"Authorization", "X-Sevco-Target-Org"} |->
            IF h = "Authorization" THEN tok ELSE org]
    ELSE [h \in {"Authorization"} |-> tok]

list_integration_access_schemas_request(platform_id, tok, org) ==
    [method |-> "GET",
     url |-> <<"https://api.sev.co", "v3", "integration-platform", platform_id,
               "access", "schema">>,
     headers |-> Headers(tok, org), json |-> None, params |-> None]

list_integration_schemas_request(platform_id, integration_id, tok, org) ==
    [method |-> "GET",
     url |-> <<"https://api.sev.co", "v3", "integration-platform", platform_id,
               "integration", integration_id, "schema">>,
     headers |-> Headers(tok, org), json |-> None, params |-> None]

create_integration_access_config_request(platform_id, create_request, tok, org) ==
    [method |-> "POST",
     url |-> <<"https://api.sev.co", "v3", "integration-platform", platform_id,
               "access", "config">>,
     headers |-> Headers(tok, org), json |-> asdict_access(create_request),
     params |-> None]

create_integration_config_request(platform_id, integration_id, create_request, tok, org) ==
    [method |-> "POST",
     url |-> <<"https://api.sev.co", "v3", "integration-platform", platform_id,
               "integration", integration_id, "config">>,
     headers |-> Headers(tok, org), json |-> asdict_integration(create_request),
     params |-> None]

get_latest_execution_request(integration_config_id, tok, org) ==
    [method |-> "GET",
     url |-> <<"https://api.sev.co", "v1", "integration", "execution">>,
     headers |-> Headers(tok, org), json |-> None,
     params |-> [context_id |-> integration_config_id, count |-> 1,
                 sort_ascending |-> "false"]]

(* --------------------------- response handling ------------------------ *)
\* resp.raise_for_status(); return resp.json()['items']
list_integration_access_schemas_return(resp) ==
    IF raise_for_status(resp.status) THEN Raise(HTTPError(resp.status))
    ELSE IF ~resp.is_json THEN Raise(JSONDecodeError)
    ELSE IF "items" \notin DOMAIN resp.body THEN Raise(KeyError("items"))
    ELSE Return(resp.body["items"])

list_integration_schemas_return(resp) ==
    IF raise_for_status(resp.status) THEN Raise(HTTPError(resp.status))
    ELSE IF ~resp.is_json THEN Raise(JSONDecodeError)
    ELSE IF "items" \notin DOMAIN resp.body THEN Raise(KeyError("items"))
    ELSE Return(resp.body["items"])

\* variant: label read from the contact_info key
AccessConfig_label_mixed(params) ==
    [org_id |-> params["org_id"],
     platform_id |-> params["platform_id"],
     id |-> params["id"],
     config_set |-> params["config_set"],
     enabled |-> params["enabled"],
     created_timestamp |-> params["created_timestamp"],
     last_updated_timestamp |-> params["last_updated_timestamp"],
     runner_id |-> Get(params, "runner_id"),
     label |-> Get(params, "contact_info"),
     contact_info |-> Get(params, "contact_info"),
     external_console_link |-> Get(params, "external_console_link")]

AccessConfig(params) ==
    [org_id |-> params["org_id"],
     platform_id |-> params["platform_id"],
     id |-> params["id"],
     config_set |-> params["config_set"],
     enabled |-> params["enabled"],
     created_timestamp |-> params["created_timestamp"],
     last_updated_timestamp |-> params["last_updated_timestamp"],
     runner_id |-> Get(params, "runner_id"),
     label |-> Get(params, "label"),
     contact_info |-> Get(params, "contact_info"),
     external_console_link |-> Get(params, "external_console_link")]

IntegrationConfig(params) ==
    [org_id |-> params["org_id"],
     platform_id |-> params["platform_id"],
     integration_id |-> params["integration_id"],
     id |-> params["id"],
     access_config_id |-> params["access_config_id"],
     config_set |-> params["config_set"],
     enabled |-> params["enabled"],
     created_timestamp |-> params["created_timestamp"],
     last_updated_timestamp |-> params["last_updated_timestamp"],
     label |-> Get(params, "label")]

\* variant: every field read with .get, so a missing one becomes None
create_integration_access_config_return_lenient(resp) ==
    IF raise_for_status(resp.status) THEN Raise(HTTPError(resp.status))
    ELSE IF ~resp.is_json THEN Raise(JSONDecodeError)
    ELSE Return([f \in Range(AccessRequired) \cup AccessOptional |->
                    Get(resp.body, f)])

create_integration_access_config_return(resp) ==
    IF raise_for_status(resp.status) THEN Raise(HTTPError(resp.status))
    ELSE IF ~resp.is_json THEN Raise(JSONDecodeError)
    ELSE IF ~(Range(AccessRequired) \subseteq DOMAIN resp.body)
         THEN Raise(KeyError(FirstMissing(resp.body, AccessRequired)))
    ELSE Return(AccessConfig(resp.body))

\* variant: the body is deserialized before the status is checked
create_integration_config_return_body_first(resp) ==
    IF ~resp.is_json THEN Raise(JSONDecodeError)
    ELSE IF ~(Range(IntegrationRequired) \subseteq DOMAIN resp.body)
         THEN Raise(KeyError(FirstMissing(resp.body, IntegrationRequired)))
    ELSE IF raise_for_status(resp.status) THEN Raise(HTTPError(resp.status))
    ELSE Return(IntegrationConfig(resp.body))

create_integration_config_return(resp) ==
    IF raise_for_status(resp.status) THEN Raise(HTTPError(resp.status))
    ELSE IF ~resp.is_json THEN Raise(JSONDecodeError)
    ELSE IF ~(Range(IntegrationRequired) \subseteq DOMAIN resp.body)
         THEN Raise(KeyError(FirstMissing(resp.body, IntegrationRequired)))
    ELSE Return(IntegrationConfig(resp.body))

\* variant: an empty items list yields None instead of raising
get_latest_execution_return_default(resp) ==
    IF raise_for_status(resp.status) THEN Raise(HTTPError(resp.status))
    ELSE IF ~resp.is_json THEN Raise(JSONDecodeError)
    ELSE IF "items" \notin DOMAIN resp.body THEN Raise(KeyError("items"))
    ELSE IF Len(resp.body["items"]) = 0 THEN Return(None)
    ELSE Return(resp.body["items"][1])

\* resp.raise_for_status(); return resp.json()['items'][0]
get_latest_execution_return(resp) ==
    IF raise_for_status(resp.status) THEN Raise(HTTPError(resp.status))
    ELSE IF ~resp.is_json THEN Raise(JSONDecodeError)
    ELSE IF "items" \notin DOMAIN resp.body THEN Raise(KeyError("items"))
    ELSE IF Len(resp.body["items"]) = 0 THEN Raise(IndexError)
    ELSE Return(resp.body["items"][1])

(* ------------------------------- main --------------------------------- *)
\* variant: the access configuration is created before its schemas are listed
MainSteps_create_access_first ==
    <<"create_integration_access_config", "list_integration_access_schemas",
      "list_integration_schemas", "create_integration_config",
      "get_latest_execution">>

\* variant: the integration configuration is created before its schemas are
\* listed
MainSteps_create_integration_first ==
    <<"list_integration_access_schemas", "create_integration_access_config",
      "create_integration_config", "list_integration_schemas",
      "get_latest_execution">>

\* the calls of main(), in program order
MainSteps ==
    <<"list_integration_access_schemas", "create_integration_access_config",
      "list_integration_schemas", "create_integration_config",
      "get_latest_execution">>

\* the local variable each call of main() is assigned to
MainLocal ==
    [list_integration_access_schemas |-> "access_schemas",
     create_integration_access_config |-> "access_config",
     list_integration_schemas |-> "integration_schemas",
     create_integration_config |-> "integration_config",
     get_latest_execution |-> "execution"]

main_access_request ==
    CreateIntegrationAccessConfigRequest(
        ConfigSet("api-key-url", [api_key |-> "foo"],
                  [url |-> "https://usea1-001-mssp.sentinelone.net/"], None),
        TRUE, "My SentinelOne Connection", None, None, None)

\* variant: the organization id is passed where the config id belongs
main_integration_request_org_id(access_config) ==
    CreateIntegrationConfigRequest(
        access_config.org_id,
        ConfigSet("sentinelone-with-account-ids", None, None,
                  [account_ids |-> "1111111112222223333,4444111112266666888"]),
        TRUE, "SentinelOne Source")

main_integration_request(access_config) ==
    CreateIntegrationConfigRequest(
        access_config.id,
        ConfigSet("sentinelone-with-account-ids", None, None,
                  [account_ids |-> "1111111112222223333,4444111112266666888"]),
        TRUE, "SentinelOne Source")

\* variant: a failed call is tried again
next_phase_retry(out, s) ==
    IF out.error.kind # "None" THEN "call"
    ELSE IF s = Len(MainSteps) THEN "done" ELSE "call"

\* an exception raised in a call unwinds main(); otherwise the next
\* statement runs
next_phase(out, s) ==
    IF out.error.kind # "None" THEN "failed"
    ELSE IF s = Len(MainSteps) THEN "done" ELSE "call"

Current == IF step <= Len(MainSteps) THEN MainSteps[step] ELSE "end"

Init ==
    /\ token \in Tokens
    /\ target_org \in TargetOrgs
    /\ step = 1
    /\ phase = "call"
    /\ requests = <<>>
    /\ response = NoResponse
    /\ locals = <<>>
    /\ error = NoError
    /\ server_access_configs = {}
    /\ server_integration_configs = {}

Issue(req) ==
    /\ requests' = Append(requests, req)
    /\ response' = NoResponse
    /\ phase' = "wait"
    /\ UNCHANGED <<token, target_org, step, locals, error,
                   server_access_configs, server_integration_configs>>

Finish(out) ==
    /\ phase' = next_phase(out, step)
    /\ error' = out.error
    /\ IF out.error.kind = "None"
       THEN /\ locals' = locals @@ (MainLocal[Current] :> out.value)
            /\ step' = step + 1
       ELSE UNCHANGED <<locals, step>>
    /\ UNCHANGED <<token, target_org, requests, response,
                   server_access_configs, server_integration_configs>>

Call_list_integration_access_schemas ==
    /\ phase = "call" /\ Current = "list_integration_access_schemas"
    /\ Issue(list_integration_access_schemas_request("sentinelone", token,
                                                     target_org))

Return_list_integration_access_schemas ==
    /\ phase = "recv" /\ Current = "list_integration_access_schemas"
    /\ Finish(list_integration_access_schemas_return(response))

Call_create_integration_access_config ==
    /\ phase = "call" /\ Current = "create_integration_access_config"
    /\ Issue(create_integration_access_config_request(
                 "sentinelone", main_access_request, token, target_org))

Return_create_integration_access_config ==
    /\ phase = "recv" /\ Current = "create_integration_access_config"
    /\ Finish(create_integration_access_config_return(response))

Call_list_integration_schemas ==
    /\ phase = "call" /\ Current = "list_integration_schemas"
    /\ Issue(list_integration_schemas_request("sentinelone", "sentinelone",
                                              token, target_org))

Return_list_integration_schemas ==
    /\ phase = "recv" /\ Current = "list_integration_schemas"
    /\ Finish(list_integration_schemas_return(response))

Call_create_integration_config ==
    /\ phase = "call" /\ Current = "create_integration_config"
    /\ Issue(create_integration_config_request(
                 "sentinelone", "sentinelone",
                 main_integration_request(locals["access_config"]),
                 token, target_org))

Return_create_integration_config ==
    /\ phase = "recv" /\ Current = "create_integration_config"
    /\ Finish(create_integration_config_return(response))

Call_get_latest_execution ==
    /\ phase = "call" /\ Current = "get_latest_execution"
    /\ Issue(get_latest_execution_request(locals["integration_config"].id,
                                          token, target_org))

Return_get_latest_execution ==
    /\ phase = "recv" /\ Current = "get_latest_execution"
    /\ Finish(get_latest_execution_return(response))

(* -------------------------- the remote service ------------------------ *)
IsSchemaList(req) == req.method = "GET" /\ Last(req.url) = "schema"
IsExecutionQuery(req) == req.method = "GET" /\ Last(req.url) = "execution"
IsCreateAccess(req) ==
    req.method = "POST" /\ Last(req.url) = "config" /\ req.url[5] = "access"
IsCreateIntegration(req) ==
    req.method = "POST" /\ Last(req.url) = "config" /\ req.url[5] = "integration"

Success(status) == 200 <= status /\ status < 300

ItemsBodies(S) ==
    {[is_json |-> FALSE, body |-> <<>>], [is_json |-> TRUE, body |-> <<>>]}
    \cup {[is_json |-> TRUE, body |-> [k \in {"items"} |-> items]] :
             items \in SeqsUpTo(S, MaxItems)}

Deliver(status, b) ==
    /\ response' = [status |-> status, is_json |-> b.is_json, body |-> b.body]
    /\ phase' = "recv"
    /\ UNCHANGED <<token, target_org, step, requests, locals, error>>

ServeSchemaList ==
    /\ phase = "wait" /\ IsSchemaList(Last(requests))
    /\ \E status \in Statuses, b \in ItemsBodies(Schemas) : Deliver(status, b)
    /\ UNCHANGED <<server_access_configs, server_integration_configs>>

ServeExecutionQuery ==
    /\ phase = "wait" /\ IsExecutionQuery(Last(requests))
    /\ \E status \in Statuses, b \in ItemsBodies(Executions) : Deliver(status, b)
    /\ UNCHANGED <<server_access_configs, server_integration_configs>>

AccessEcho(req, id) ==
    [org_id |-> "o1", platform_id |-> req.url[4], id |-> id,
     config_set |-> req.json.config_set, enabled |-> req.json.enabled,
     created_timestamp |-> "2024-01-01T00:00:00Z",
     last_updated_timestamp |-> "2024-01-02T00:00:00Z",
     runner_id |-> req.json.runner_id, label |-> req.json.label,
     contact_info |-> req.json.contact_info,
     external_console_link |-> req.json.external_console_link]

IntegrationEcho(req, id) ==
    [org_id |-> "o1", platform_id |-> req.url[4], integration_id |-> req.url[6],
     id |-> id, access_config_id |-> req.json.access_config_id,
     config_set |-> req.json.config_set, enabled |-> req.json.enabled,
     created_timestamp |-> "2024-01-03T00:00:00Z",
     last_updated_timestamp |-> "2024-01-04T00:00:00Z",
     label |-> req.json.label]

EchoBodies(full) ==
    {[is_json |-> FALSE, body |-> <<>>]}
    \cup {[is_json |-> TRUE, body |-> Restrict(full, DOMAIN full \ omitted)] :
             omitted \in SubsetsUpTo(DOMAIN full, MaxOmitted)}

ServeCreateAccessConfig ==
    /\ phase = "wait" /\ IsCreateAccess(Last(requests))
    /\ \E status \in Statuses, id \in AccessIds \ server_access_configs :
         /\ \E b \in EchoBodies(AccessEcho(Last(requests), id)) :
                Deliver(status, b)
         /\ server_access_configs' =
                IF Success(status) THEN server_access_configs \cup {id}
                ELSE server_access_configs
    /\ UNCHANGED server_integration_configs

ServeCreateIntegrationConfig ==
    /\ phase = "wait" /\ IsCreateIntegration(Last(requests))
    /\ \E status \in Statuses,
          id \in IntegrationIds \ {c.id : c \in server_integration_configs} :
         /\ Success(status) =>
                Last(requests).json.access_config_id \in server_access_configs
         /\ \E b \in EchoBodies(IntegrationEcho(Last(requests), id)) :
                Deliver(status, b)
         /\ server_integration_configs' =
                IF Success(status)
                THEN server_integration_configs \cup
                       {[id |-> id,
                         access_config_id |->
                             Last(requests).json.access_config_id]}
                ELSE server_integration_configs
    /\ UNCHANGED server_access_configs

Next ==
    \/ Call_list_integration_access_schemas
    \/ Return_list_integration_access_schemas
    \/ Call_create_integration_access_config
    \/ Return_create_integration_access_config
    \/ Call_list_integration_schemas
    \/ Return_list_integration_schemas
    \/ Call_create_integration_config
    \/ Return_create_integration_config
    \/ Call_get_latest_execution
    \/ Return_get_latest_execution
    \/ ServeSchemaList
    \/ ServeExecutionQuery
    \/ ServeCreateAccessConfig
    \/ ServeCreateIntegrationConfig

Spec == Init /\ [][Next]_vars

TypeOK ==
    /\ token \in Tokens
    /\ target_org \in TargetOrgs
    /\ step \in 1..(Len(MainSteps) + 1)
    /\ phase \in {"call", "wait", "recv", "done", "failed"}
    /\ Len(requests) <= Len(MainSteps)

(* ------------------------- reading the state -------------------------- *)
Ops == Range(MainSteps)

\* which operation a request on the wire belongs to, from method and URL
OpOf(req) ==
    IF IsSchemaList(req) /\ req.url[5] = "access"
        THEN "list_integration_access_schemas"
    ELSE IF IsSchemaList(req) THEN "list_integration_schemas"
    ELSE IF IsCreateAccess(req) THEN "create_integration_access_config"
    ELSE IF IsCreateIntegration(req) THEN "create_integration_config"
    ELSE IF IsExecutionQuery(req) THEN "get_latest_execution"
    ELSE "other"

\* the call of op was the last one to complete and it returned a value;
\* `response` is still the response it received
JustReturned(op) ==
    /\ phase \in {"call", "done"} /\ step > 1 /\ MainSteps[step - 1] = op
    /\ response # NoResponse
\* the call of op raised, which ended main()
JustFailed(op) == phase = "failed" /\ Current = op
Completed(op) == JustReturned(op) \/ JustFailed(op)

Bound(name) == name \in DOMAIN locals
OrgHeader == "X-Sevco-Target-Org"
ClientError(status) == status \in 400..599

(* ------------------------------- claims ------------------------------- *)

\* C1: the requests of a run of main() go out in the fixed order
\* list-access-schemas, create-access-config, list-integration-schemas,
\* create-integration-config, get-latest-execution; request k+1 is on the
\* wire only once step k has returned its value, and after a step has failed
\* the list of issued requests never grows.
C1_FixedOrder ==
    /\ [](\A i \in 1..Len(requests) :
            /\ i <= 5
            /\ OpOf(requests[i]) =
                 <<"list_integration_access_schemas",
                   "create_integration_access_config",
                   "list_integration_schemas",
                   "create_integration_config",
                   "get_latest_execution">>[i]
            /\ \A j \in 1..(i - 1) : Bound(MainLocal[OpOf(requests[j])]))
    /\ [][error.kind # "None" => requests' = requests]_vars

C1_Witness ==
    /\ phase = "failed" /\ Current = "list_integration_schemas"
    /\ Len(requests) = 3 /\ Bound("access_config")

\* C2: the access_config_id in the create-integration-config request is the
\* id of the AccessConfig that create-access-config returned, and the
\* context_id of the execution query is the id of the IntegrationConfig that
\* create-integration-config returned.
C2_IdsPassedOn ==
    \A i \in 1..Len(requests) :
        /\ OpOf(requests[i]) = "create_integration_config" =>
              /\ Bound("access_config")
              /\ requests[i].json.access_config_id = locals["access_config"].id
        /\ OpOf(requests[i]) = "get_latest_execution" =>
              /\ Bound("integration_config")
              /\ requests[i].params.context_id =
                     locals["integration_config"].id

C2_Witness ==
    /\ Len(requests) = 5
    /\ requests[4].json.access_config_id = "ac-2"
    /\ requests[5].params.context_id = "ic-1"

\* C3 (as stated): every response whose status is not 2xx makes the call
\* fail with an HTTP failure carrying that status, and nothing is returned.
C3_Original ==
    \A op \in Ops :
        (Completed(op) /\ ~Success(response.status)) =>
            /\ phase = "failed"
            /\ error = HTTPError(response.status)
            /\ ~Bound(MainLocal[op])

\* C3 (amended): every response whose status is 4xx or 5xx makes the call
\* fail with an HTTP failure carrying that status, and nothing is returned;
\* a response with any other status is never an HTTP failure.
C3_Amended ==
    \A op \in Ops :
        /\ (Completed(op) /\ ClientError(response.status)) =>
               /\ phase = "failed"
               /\ error = HTTPError(response.status)
               /\ ~Bound(MainLocal[op])
        /\ (Completed(op) /\ ~ClientError(response.status)) =>
               error.kind # "HTTPError"

C3_Witness ==
    /\ JustFailed("get_latest_execution")
    /\ response.status = 404 /\ error = HTTPError(404)

\* C4: get_latest_execution on a 2xx response with items = [] fails with an
\* IndexError, which no HTTP failure and no missing-field failure produces,
\* and binds no value; with items = [X] it returns X.  An IndexError arises
\* from an empty items list only.
C4_EmptyResult ==
    /\ (/\ Completed("get_latest_execution")
        /\ Success(response.status) /\ response.is_json
        /\ "items" \in DOMAIN response.body) =>
           /\ response.body["items"] = <<>> =>
                 /\ phase = "failed" /\ error = IndexError
                 /\ error # HTTPError(response.status)
                 /\ error # KeyError("items")
                 /\ ~Bound("execution")
           /\ Len(response.body["items"]) = 1 =>
                 /\ phase = "done"
                 /\ locals["execution"] = response.body["items"][1]
    /\ error.kind = "IndexError" =>
           /\ JustFailed("get_latest_execution")
           /\ ~ClientError(response.status)
           /\ response.body["items"] = <<>>

C4_Witness ==
    /\ JustFailed("get_latest_execution") /\ error = IndexError
    /\ response.status = 200 /\ response.body["items"] = <<>>

\* C5 (as stated): every request carries the organization header exactly
\* when target_org is not None, with target_org as its value.
C5_Original ==
    \A i \in 1..Len(requests) :
        /\ (OrgHeader \in DOMAIN requests[i].headers) <=> (target_org # None)
        /\ OrgHeader \in DOMAIN requests[i].headers =>
               requests[i].headers[OrgHeader] = target_org

\* C5 (amended): every request carries the organization header exactly when
\* target_org is neither None nor the empty string, with target_org as its
\* value; the Authorization header is always the token.
C5_Amended ==
    \A i \in 1..Len(requests) :
        /\ (OrgHeader \in DOMAIN requests[i].headers) <=>
               (target_org # None /\ target_org # "")
        /\ OrgHeader \in DOMAIN requests[i].headers =>
               requests[i].headers[OrgHeader] = target_org
        /\ requests[i].headers["Authorization"] = token

C5_Witness ==
    /\ Len(requests) = 5 /\ target_org = ""
    /\ \A i \in 1..5 : OrgHeader \notin DOMAIN requests[i].headers

\* C6: a 2xx JSON response that lacks a required field makes
\* create_integration_access_config, and likewise create_integration_config,
\* fail with a KeyError naming a missing required field; no record is bound.
C6_MissingField ==
    /\ (/\ Completed("create_integration_access_config")
        /\ Success(response.status) /\ response.is_json
        /\ ~(Range(AccessRequired) \subseteq DOMAIN response.body)) =>
           /\ phase = "failed" /\ error.kind = "KeyError"
           /\ error.key \in Range(AccessRequired) \ DOMAIN response.body
           /\ ~Bound("access_config")
    /\ (/\ Completed("create_integration_config")
        /\ Success(response.status) /\ response.is_json
        /\ ~(Range(IntegrationRequired) \subseteq DOMAIN response.body)) =>
           /\ phase = "failed" /\ error.kind = "KeyError"
           /\ error.key \in Range(IntegrationRequired) \ DOMAIN response.body
           /\ ~Bound("integration_config")

C6_Witness ==
    /\ JustFailed("create_integration_access_config")
    /\ response.status = 200 /\ response.is_json
    /\ "id" \notin DOMAIN response.body
    /\ error = KeyError("id")

\* C7: each call issues one request and then returns a value or fails once:
\* the number of requests issued equals the number of calls begun, no
\* operation's request occurs twice, at most five requests are issued, a
\* failed call leaves its variable unbound and a returned one binds it, and
\* after a failure no request is issued.
C7_NoRetry ==
    /\ [](/\ Len(requests) <= 5
          /\ Len(requests) =
                 (step - 1) + (IF phase \in {"wait", "recv", "failed"}
                               THEN 1 ELSE 0)
          /\ \A i, j \in 1..Len(requests) :
                 i # j => OpOf(requests[i]) # OpOf(requests[j])
          /\ \A op \in Ops :
                 /\ JustFailed(op) =>
                        error.kind # "None" /\ ~Bound(MainLocal[op])
                 /\ JustReturned(op) =>
                        error.kind = "None" /\ Bound(MainLocal[op]))
    /\ [][phase = "failed" => requests' = requests]_vars

C7_Witness ==
    /\ phase = "done" /\ Len(requests) = 5 /\ Bound("execution")

\* C8: when the response has every required field, the AccessConfig that
\* create_integration_access_config returns has each required field equal to
\* the response's, each optional field equal to the response's when present
\* and None when omitted, and an omitted optional field causes no failure.
C8_Verbatim ==
    /\ JustReturned("create_integration_access_config") =>
           /\ \A f \in Range(AccessRequired) :
                  locals["access_config"][f] = response.body[f]
           /\ \A f \in AccessOptional :
                  locals["access_config"][f] =
                      IF f \in DOMAIN response.body THEN response.body[f]
                      ELSE None
    /\ (/\ Completed("create_integration_access_config")
        /\ ~ClientError(response.status) /\ response.is_json
        /\ Range(AccessRequired) \subseteq DOMAIN response.body) =>
           JustReturned("create_integration_access_config")

C8_Witness ==
    /\ JustReturned("create_integration_access_config")
    /\ "contact_info" \notin DOMAIN response.body
    /\ locals["access_config"].contact_info = None
    /\ locals["access_config"].label = "My SentinelOne Connection"

\* C9 (as stated): in both create operations every response whose status is
\* not a success (2xx) gives an HTTP failure whatever the body is, and a
\* KeyError occurs only for a response whose status passed the status check.
C9_Original ==
    \A op \in {"create_integration_access_config",
               "create_integration_config"} :
        Completed(op) =>
            /\ ~Success(response.status) =>
                   phase = "failed" /\ error = HTTPError(response.status)
            /\ error.kind \in {"KeyError", "JSONDecodeError"} =>
                   ~ClientError(response.status)

\* C9 (amended): in both create operations the status check comes first: a
\* 4xx or 5xx status gives an HTTP failure whatever the body is, and a
\* KeyError occurs only for a response whose status passed the check; a
\* status that passes the check, 2xx or not, never gives an HTTP failure, and
\* its body is deserialized.
C9_Amended ==
    \A op \in {"create_integration_access_config",
               "create_integration_config"} :
        Completed(op) =>
            /\ ClientError(response.status) =>
                   phase = "failed" /\ error = HTTPError(response.status)
            /\ error.kind \in {"KeyError", "JSONDecodeError"} =>
                   ~ClientError(response.status)
            /\ ~ClientError(response.status) =>
                   /\ error.kind # "HTTPError"
                   /\ (response.is_json /\ "id" \notin DOMAIN response.body) =>
                          phase = "failed" /\ error.kind = "KeyError"

C9_Witness ==
    /\ JustFailed("create_integration_config")
    /\ response.status = 500 /\ response.is_json
    /\ "id" \notin DOMAIN response.body
    /\ error = HTTPError(500)

\* every request of the log is the GET or POST of one of the five operations
OnlyFiveOperations ==
    \A i \in 1..Len(requests) :
        requests[i].method \in {"GET", "POST"} /\ OpOf(requests[i]) \in Ops

\* C10 (as stated): when the access configuration was created on the server
\* and main() then fails in create-access-config, list-integration-schemas or
\* create-integration-config, no integration configuration exists on the
\* server; the client sends nothing but the five operations' requests and
\* the access configuration is never removed.
C10_Original ==
    /\ []((/\ phase = "failed" /\ server_access_configs # {}
           /\ Current \in {"create_integration_access_config",
                           "list_integration_schemas",
                           "create_integration_config"}) =>
              server_integration_configs = {})
    /\ []OnlyFiveOperations
    /\ [][server_access_configs \subseteq server_access_configs']_vars

\* C10 (amended): as stated, except that a failure of
\* create-integration-config leaves no integration configuration only when
\* the service answered it with a non-2xx status; when the service accepted
\* the request and the client failed on the response body, the integration
\* configuration exists and references the access configuration.
C10_Amended ==
    /\ []((/\ phase = "failed" /\ server_access_configs # {}
           /\ \/ Current \in {"create_integration_access_config",
                              "list_integration_schemas"}
              \/ /\ Current = "create_integration_config"
                 /\ ~Success(response.status)) =>
              server_integration_configs = {})
    /\ []((/\ JustFailed("create_integration_config")
           /\ Success(response.status)) =>
              \E c \in server_integration_configs :
                  c.access_config_id \in server_access_configs)
    /\ []OnlyFiveOperations
    /\ [][server_access_configs \subseteq server_access_configs']_vars

C10_Witness ==
    /\ JustFailed("list_integration_schemas")
    /\ server_access_configs = {"ac-1"}
    /\ server_integration_configs = {}
====
